---- MODULE Spec2Model ----
(***************************************************************************)
(* gotimer: a process-wide polling scheduler (src/gotimer.go).            *)
(*                                                                         *)
(* Goroutines of the model:                                                *)
(*   - one caller per timer id, running NewOneTimer / NewIntervalTimer,    *)
(*     the deferred queue(t, delay) and, inside it, instance();            *)
(*     with a non-nil delay the tail of queue runs in a detached waiter;   *)
(*   - one poll loop per `go _scheduler.poll()` statement executed;        *)
(*   - the wall clock (Tick);                                              *)
(*   - in-package controllers that send on s.stop or set a timer's s flag. *)
(* Spec is the package as written; SpecStop and SpecCancel add a           *)
(* controller, SpecNested callbacks that call a constructor, FairSpec fair *)
(* scheduling; SpecSweep starts one loop in front of any timers it can     *)
(* have received.                                                          *)
(* Steps are the statements that touch shared memory or a channel; local   *)
(* computation is folded into the step that follows it.                    *)
(***************************************************************************)
EXTENDS Integers, Sequences, FiniteSets, TLC

\* ---------------------------------------------------------------- bounds
NumTimers == 2      \* constructor calls (timer ids 1..NumTimers)
MaxTime == 2        \* clock horizon
MaxDelay == 1       \* non-nil delays are 1..MaxDelay
MaxInterval == 1    \* intervals are 0..MaxInterval
MaxLive == 3        \* a sweep's removal runs only if its result has at most MaxLive entries
MaxStops == 1       \* values sent on stop channels
MaxFaulty == 1      \* timers whose callback panics
MaxCount == 2       \* invocations counted per callback; the count stays there

\* ------------------------------------------------------------- constants
NoSched == 0        \* the nil *scheduler / nil timer
NoDelay == -1       \* the nil *time.Duration
NoTime == 0 - 1     \* "has not happened" in the history variables

Timers == 1..NumTimers
Delays == {NoDelay} \cup (1..MaxDelay)
Intervals == 0..MaxInterval

VARIABLES
    now,          \* time.Now()
    tm,           \* the timer objects: kind, c, i, n, s, fn, and the delay passed to queue
    pc,           \* position of each caller (or of its detached waiter)
    cs,           \* queue's local `s`: the scheduler instance() returned
    _scheduler,   \* the package variable
    timers,       \* s.timers of each scheduler: backing array and length
    loop,         \* the poll goroutines: position and locals
    stops,        \* values sent on stop channels so far
    hist          \* history: time and count of the callback's invocations, whether tick was called,
                  \* and the stopped scheduler _scheduler named when the constructor was called

vars == <<now, tm, pc, cs, _scheduler, timers, loop, stops, hist>>

Range(q) == {q[j] : j \in 1..Len(q)}

\* ------------------------------------------------------------ slices
NilSlice == [arr |-> <<>>, len |-> 0]

\* s.timers as the range/len sees it
Live(sl) == SubSeq(sl.arr, 1, sl.len)

\* the capacity the runtime gives a slice that must grow to `need` elements
GrowCap(oldcap, need) == IF need > 2 * oldcap THEN need ELSE 2 * oldcap

\* append(sl, xs...): in place when the capacity allows, else into a fresh zeroed array
AppendSlice(sl, xs) ==
    LET need == sl.len + Len(xs)
        cap == Len(sl.arr)
    IN  IF need <= cap
        THEN [arr |-> [j \in 1..cap |->
                          IF j > sl.len /\ j <= need THEN xs[j - sl.len] ELSE sl.arr[j]],
              len |-> need]
        ELSE [arr |-> [j \in 1..GrowCap(cap, need) |->
                          IF j <= sl.len THEN sl.arr[j]
                          ELSE IF j <= need THEN xs[j - sl.len] ELSE NoSched],
              len |-> need]

\* s.timers = append(s.timers[:idx], s.timers[:idx+1]...)   (idx is 0-based)
RemoveIdx(sl, idx) ==
    AppendSlice([arr |-> sl.arr, len |-> idx], SubSeq(sl.arr, 1, idx + 1))

\* for _, idx := range del { ... }
RECURSIVE RemoveAll(_, _)
RemoveAll(sl, del) ==
    IF del = <<>> THEN sl ELSE RemoveAll(RemoveIdx(sl, Head(del)), Tail(del))

\* ------------------------------------------------------------ timers
NoTimer == [kind |-> "none", c |-> 0, i |-> 0, n |-> 0, s |-> FALSE, fn |-> "ok",
            d |-> NoDelay, w |-> 0]

\* getInterval() == nil
IsOneTimer(t) == tm[t].kind = "one"

\* a getStop that never reports the flag
GetStopNever(t) == FALSE

\* getStop(): the s field of an interval timer, true for a one-shot timer
GetStop(t) == IF IsOneTimer(t) THEN TRUE ELSE tm[t].s

\* a tick that invokes the callback whatever the time, as OneTimer.tick does
DueAlways(t, at) == TRUE

\* t.After(self.n)
Due(t, at) == at > tm[t].n

\* a tick that keeps the original schedule: the old n plus the interval
NextDueFromOld(t, at) == tm[t].n + tm[t].i

\* self.n = t.Add(self.i)
NextDue(t, at) == at + tm[t].i

Faulty == {t \in Timers : tm[t].kind # "none" /\ tm[t].fn = "panic"}

NoHist == [last |-> NoTime, cnt |-> 0, ticked |-> FALSE, late |-> NoSched]

\* the callback of t is invoked by a tick that read the clock as `at`
Fired(t, at) ==
    [hist EXCEPT ![t].last = at, ![t].ticked = TRUE,
                 ![t].cnt = IF @ < MaxCount THEN @ + 1 ELSE @]

\* seen is history: the interval timers whose s was set when the sweep read s.timers
\* cb is the timer that the callback the loop is running constructs
NoLoop == [pc |-> "none", s |-> NoSched, i |-> 0, del |-> <<>>, rng |-> <<>>, t |-> 0,
           seen |-> {}, cb |-> NoSched]

\* some goroutine panicked outside poll's recover: the process is gone
Crashed == \E t \in Timers : pc[t] = "panic"

\* a poll loop of scheduler k has taken the stop signal
Stopped(k) == \E l \in Timers : loop[l].s = k /\ loop[l].pc \in {"clear", "exited"}

Init ==
    /\ now = 0
    /\ tm = [t \in Timers |-> NoTimer]
    /\ pc = [t \in Timers |-> "idle"]
    /\ cs = [t \in Timers |-> NoSched]
    /\ _scheduler = NoSched
    /\ timers = [k \in Timers |-> NilSlice]
    /\ loop = [l \in Timers |-> NoLoop]
    /\ stops = 0
    /\ hist = [t \in Timers |-> NoHist]

\* ------------------------------------------------------------ constructors
\* the calls are numbered in the order they start
CanCall(t, d, f) ==
    /\ ~Crashed
    /\ pc[t] = "idle"
    /\ IF t = 1 THEN TRUE ELSE pc[t - 1] # "idle"
    /\ f = "panic" => Cardinality(Faulty) < MaxFaulty

\* instance(): if _scheduler == nil. The deferred queue(t, delay) starts with it, and the
\* construction before it touches nothing shared, so it is part of the constructor's step
InstanceCheck == IF _scheduler = NoSched THEN "create" ELSE "return"

\* the scheduler the call finds in _scheduler, if its loop has already taken a stop signal
LateFor == IF _scheduler # NoSched /\ Stopped(_scheduler) THEN _scheduler ELSE NoSched

NewOneTimer(t, d, f) ==
    /\ CanCall(t, d, f)
    /\ tm' = [tm EXCEPT ![t] = [kind |-> "one", c |-> now, i |-> 0, n |-> 0, s |-> FALSE,
                                fn |-> f, d |-> d, w |-> 0]]
    /\ pc' = [pc EXCEPT ![t] = InstanceCheck]
    /\ hist' = [hist EXCEPT ![t].late = LateFor]
    /\ UNCHANGED <<now, cs, _scheduler, timers, loop, stops>>

NewIntervalTimer(t, d, i, f) ==
    /\ CanCall(t, d, f)
    /\ tm' = [tm EXCEPT ![t] = [kind |-> "interval", c |-> now, i |-> i, n |-> now + i,
                                s |-> FALSE, fn |-> f, d |-> d, w |-> 0]]
    /\ pc' = [pc EXCEPT ![t] = InstanceCheck]
    /\ hist' = [hist EXCEPT ![t].late = LateFor]
    /\ UNCHANGED <<now, cs, _scheduler, timers, loop, stops>>

\* ------------------------------------------------------------ instance()
\* _scheduler = &scheduler{...}: the scheduler made by caller t is scheduler t
InstanceCreate(t) ==
    /\ ~Crashed
    /\ pc[t] = "create"
    /\ _scheduler' = t
    /\ timers' = [timers EXCEPT ![t] = NilSlice]
    /\ pc' = [pc EXCEPT ![t] = "go"]
    /\ UNCHANGED <<now, tm, cs, loop, stops, hist>>

\* go _scheduler.poll(): the receiver is read from the package variable again; on a nil
\* receiver poll panics at its first s.stop, recovers and returns
InstanceGo(t) ==
    /\ ~Crashed
    /\ pc[t] = "go"
    /\ loop' = [loop EXCEPT ![t] = [NoLoop EXCEPT
                   !.pc = IF _scheduler = NoSched THEN "dead" ELSE "select",
                   !.s = _scheduler]]
    /\ pc' = [pc EXCEPT ![t] = "return"]
    /\ UNCHANGED <<now, tm, cs, _scheduler, timers, stops, hist>>

\* return _scheduler, then queue's branch on delay: a detached waiter, or the send itself.
\* A sleep starts only if it ends within the clock horizon
InstanceReturn(t) ==
    /\ ~Crashed
    /\ pc[t] = "return"
    /\ IF tm[t].d = NoDelay THEN TRUE ELSE now + tm[t].d <= MaxTime
    /\ cs' = [cs EXCEPT ![t] = _scheduler]
    /\ pc' = [pc EXCEPT ![t] = IF tm[t].d # NoDelay THEN "sleep" ELSE "send"]
    /\ tm' = [tm EXCEPT ![t].w = IF tm[t].d # NoDelay THEN now + tm[t].d ELSE 0]
    /\ UNCHANGED <<now, _scheduler, timers, loop, stops, hist>>

\* ------------------------------------------------------------ queue()
\* a waiter that sends without sleeping
SleptNothing(t) == TRUE

\* time.Sleep(*delay) has lasted at least the delay
Slept(t) == now >= tm[t].w

\* time.Sleep(*delay) returns
Sleep(t) ==
    /\ ~Crashed
    /\ pc[t] = "sleep"
    /\ Slept(t)
    /\ pc' = [pc EXCEPT ![t] = "send"]
    /\ UNCHANGED <<now, tm, cs, _scheduler, timers, loop, stops, hist>>

\* s.queue <- t with s == nil: a nil dereference outside any recover
SendNil(t) ==
    /\ ~Crashed
    /\ pc[t] = "send"
    /\ cs[t] = NoSched
    /\ pc' = [pc EXCEPT ![t] = "panic"]
    /\ UNCHANGED <<now, tm, cs, _scheduler, timers, loop, stops, hist>>

\* the constructor has returned to its caller
Returned(t) ==
    \/ pc[t] = "done"
    \/ tm[t].d # NoDelay /\ pc[t] \in {"sleep", "send"}

\* a goroutine is blocked in s.queue <- t on scheduler k
Sending(t, k) == pc[t] = "send" /\ cs[t] = k /\ k # NoSched

\* ------------------------------------------------------------ poll()
\* case t := <-s.queue: s.timers = append(s.timers, t)
Receive(l, t) ==
    /\ ~Crashed
    /\ loop[l].pc = "select"
    /\ Sending(t, loop[l].s)
    /\ timers' = [timers EXCEPT ![loop[l].s] = AppendSlice(@, <<t>>)]
    /\ pc' = [pc EXCEPT ![t] = "done"]
    /\ UNCHANGED <<now, tm, cs, _scheduler, loop, stops, hist>>

\* case <-s.stop: b = true, then `if b { break }`
ReceiveStop(l) ==
    /\ ~Crashed
    /\ loop[l].pc = "select"
    /\ stops < MaxStops
    /\ stops' = stops + 1
    /\ loop' = [loop EXCEPT ![l].pc = "clear"]
    /\ UNCHANGED <<now, tm, pc, cs, _scheduler, timers, hist>>

\* _scheduler = nil
Clear(l) ==
    /\ ~Crashed
    /\ loop[l].pc = "clear"
    /\ _scheduler' = NoSched
    /\ loop' = [loop EXCEPT ![l].pc = "exited"]
    /\ UNCHANGED <<now, tm, pc, cs, timers, stops, hist>>

\* default: taken only when no send is ready; del := [], range s.timers evaluated once.
\* Over an empty s.timers both loops of the branch do nothing
Default(l) ==
    /\ ~Crashed
    /\ loop[l].pc = "select"
    /\ ~\E t \in Timers : Sending(t, loop[l].s)
    /\ loop' = IF Live(timers[loop[l].s]) = <<>>
               THEN loop
               ELSE [loop EXCEPT ![l].pc = "sweep", ![l].rng = Live(timers[loop[l].s]),
                                 ![l].seen = {t \in Range(Live(timers[loop[l].s])) :
                                                 tm[t].kind = "interval" /\ tm[t].s}]
    /\ UNCHANGED <<now, tm, pc, cs, _scheduler, timers, stops, hist>>

\* the timer the range loop is at
Cur(l) == loop[l].rng[loop[l].i + 1]

InSweep(l) == ~Crashed /\ loop[l].pc = "sweep" /\ loop[l].i < Len(loop[l].rng)

\* the range loop goes on to its next element, after marking the current one or not;
\* after the last element with nothing marked, the removal loop does nothing
Advance(l, mark) ==
    IF ~mark /\ loop[l].del = <<>> /\ loop[l].i + 1 = Len(loop[l].rng)
    THEN [loop EXCEPT ![l] = [NoLoop EXCEPT !.pc = "select", !.s = loop[l].s]]
    ELSE [loop EXCEPT ![l].pc = "sweep", ![l].i = @ + 1,
                      ![l].del = IF mark THEN Append(@, loop[l].i) ELSE @]

\* a panic in the loop's goroutine: the deferred recover runs and poll returns
Die(l) == [loop EXCEPT ![l].pc = "dead"]

\* getInterval() == nil: t.tick(time.Now()) calls fn; del = append(del, i)
SweepOneTimer(l) ==
    /\ InSweep(l)
    /\ IsOneTimer(Cur(l))
    /\ tm[Cur(l)].fn # "new"
    /\ hist' = Fired(Cur(l), now)
    /\ loop' = IF tm[Cur(l)].fn = "panic" THEN Die(l) ELSE Advance(l, TRUE)
    /\ UNCHANGED <<now, tm, pc, cs, _scheduler, timers, stops>>

\* t.getStop(): del = append(del, i)
SweepStopped(l) ==
    /\ InSweep(l)
    /\ ~IsOneTimer(Cur(l))
    /\ GetStop(Cur(l))
    /\ loop' = Advance(l, TRUE)
    /\ UNCHANGED <<now, tm, pc, cs, _scheduler, timers, stops, hist>>

\* t.tick(time.Now()) of an interval timer, up to its test t.After(self.n)
TickCheck(l) ==
    /\ InSweep(l)
    /\ ~IsOneTimer(Cur(l))
    /\ ~GetStop(Cur(l))
    /\ loop' = IF Due(Cur(l), now)
               THEN [loop EXCEPT ![l].pc = "fire", ![l].t = now]
               ELSE Advance(l, FALSE)
    /\ hist' = [hist EXCEPT ![Cur(l)].ticked = TRUE]
    /\ UNCHANGED <<now, tm, pc, cs, _scheduler, timers, stops>>

\* self.fn(self.t); self.n = t.Add(self.i)
TickFire(l) ==
    /\ ~Crashed
    /\ loop[l].pc = "fire"
    /\ tm[Cur(l)].fn # "new"
    /\ hist' = Fired(Cur(l), loop[l].t)
    /\ IF tm[Cur(l)].fn = "panic"
       THEN loop' = Die(l) /\ tm' = tm
       ELSE /\ loop' = Advance(l, FALSE)
            /\ tm' = [tm EXCEPT ![Cur(l)].n = NextDue(Cur(l), loop[l].t)]
    /\ UNCHANGED <<now, pc, cs, _scheduler, timers, stops>>

\* self.fn(self.t) with an fn that calls a constructor: the call is the next one to start,
\* and it runs on the loop's goroutine up to the constructor's return
CallbackCalls(l, t) ==
    /\ ~Crashed
    /\ \/ InSweep(l) /\ IsOneTimer(Cur(l))
       \/ loop[l].pc = "fire"
    /\ tm[Cur(l)].fn = "new"
    /\ pc[t] = "idle"
    /\ IF t = 1 THEN TRUE ELSE pc[t - 1] # "idle"
    /\ \A m \in Timers : loop[m].cb # t
    /\ hist' = Fired(Cur(l), IF loop[l].pc = "fire" THEN loop[l].t ELSE now)
    /\ loop' = [loop EXCEPT ![l].pc = "callback", ![l].cb = t]
    /\ UNCHANGED <<now, tm, pc, cs, _scheduler, timers, stops>>

\* the constructor has returned to fn, and fn to tick: self.n = t.Add(self.i) in an interval
\* timer, del = append(del, i) after a one-shot timer
CallbackReturns(l) ==
    /\ ~Crashed
    /\ loop[l].pc = "callback"
    /\ Returned(loop[l].cb)
    /\ loop' = [Advance(l, IsOneTimer(Cur(l))) EXCEPT ![l].cb = NoSched]
    /\ tm' = IF IsOneTimer(Cur(l)) THEN tm
             ELSE [tm EXCEPT ![Cur(l)].n = NextDue(Cur(l), loop[l].t)]
    /\ UNCHANGED <<now, pc, cs, _scheduler, timers, stops, hist>>

\* for _, idx := range del { s.timers = append(s.timers[:idx], s.timers[:idx+1]...) }
\* a slice expression beyond the capacity panics
Remove(l) ==
    /\ ~Crashed
    /\ loop[l].pc = "sweep"
    /\ loop[l].i = Len(loop[l].rng)
    /\ LET k == loop[l].s
           fits == \A j \in 1..Len(loop[l].del) : loop[l].del[j] + 1 <= Len(timers[k].arr)
       IN  IF fits
           THEN /\ RemoveAll(timers[k], loop[l].del).len <= MaxLive
                /\ timers' = [timers EXCEPT ![k] = RemoveAll(@, loop[l].del)]
                /\ loop' = [loop EXCEPT ![l] = [NoLoop EXCEPT !.pc = "select", !.s = k]]
           ELSE /\ timers' = timers
                /\ loop' = Die(l)
    /\ UNCHANGED <<now, tm, pc, cs, _scheduler, stops, hist>>

\* ------------------------------------------------------------ environment
\* the wall clock; it is read for the first time by the first constructor call
Tick ==
    /\ ~Crashed
    /\ pc[1] # "idle"
    /\ now < MaxTime
    /\ now' = now + 1
    /\ UNCHANGED <<tm, pc, cs, _scheduler, timers, loop, stops, hist>>

\* in-package code sets the s field of an interval timer
SetStop(t) ==
    /\ ~Crashed
    /\ tm[t].kind = "interval"
    /\ ~tm[t].s
    /\ tm' = [tm EXCEPT ![t].s = TRUE]
    /\ UNCHANGED <<now, pc, cs, _scheduler, timers, loop, stops, hist>>

\* ------------------------------------------------------------ specifications
\* the goroutine of a constructor call, and its detached waiter
Caller(t) ==
    \/ \E d \in Delays, f \in {"ok", "panic"} : NewOneTimer(t, d, f)
    \/ \E d \in Delays, i \in Intervals, f \in {"ok", "panic"} : NewIntervalTimer(t, d, i, f)
    \/ InstanceCreate(t)
    \/ InstanceGo(t)
    \/ InstanceReturn(t)
    \/ Sleep(t)

\* a poll goroutine
Poll(l) ==
    \/ \E t \in Timers : Receive(l, t)
    \/ Default(l)
    \/ SweepOneTimer(l)
    \/ TickCheck(l)
    \/ TickFire(l)
    \/ Remove(l)

\* the package as it is written: nothing in it sends on s.stop or sets a timer's s
Next ==
    \/ \E t \in Timers : Caller(t)
    \/ \E l \in Timers : Poll(l)
    \/ Tick

Spec == Init /\ [][Next]_vars

\* with a controller, inside the package, that sends on the stop channel of a scheduler
NextStop ==
    \/ Next
    \/ \E l \in Timers : ReceiveStop(l)
    \/ \E l \in Timers : Clear(l)
    \/ \E t \in Timers : SendNil(t)

SpecStop == Init /\ [][NextStop]_vars


\* with a controller, inside the package, that sets the s field of interval timers; the
\* timers are registered with no delay and their callbacks return
CallerCancel(t) ==
    \/ \E i \in Intervals : NewIntervalTimer(t, NoDelay, i, "ok")
    \/ InstanceCreate(t)
    \/ InstanceGo(t)
    \/ InstanceReturn(t)

PollCancel(l) ==
    \/ \E t \in Timers : Receive(l, t)
    \/ Default(l)
    \/ SweepStopped(l)
    \/ TickCheck(l)
    \/ TickFire(l)
    \/ Remove(l)

NextCancel ==
    \/ \E t \in Timers : CallerCancel(t)
    \/ \E l \in Timers : PollCancel(l)
    \/ \E t \in Timers : SetStop(t)
    \/ Tick

SpecCancel == Init /\ [][NextCancel]_vars

\* one poll loop in front of any s.timers it can have received: up to NumTimers timers,
\* constructed at time 0 and received in any order, of either kind, with any interval and
\* any n a tick can have left, at any clock value
RECURSIVE FromSeq(_)
FromSeq(q) == IF q = <<>> THEN NilSlice
              ELSE AppendSlice(FromSeq(SubSeq(q, 1, Len(q) - 1)), <<q[Len(q)]>>)

Orders(n) == {q \in [1..n -> 1..n] : \A a, b \in 1..n : a # b => q[a] # q[b]}

Received(kind, i, n, f) ==
    [kind |-> kind, c |-> 0, i |-> i, n |-> n, s |-> FALSE, fn |-> f, d |-> NoDelay, w |-> 0]

ReceivedTimers ==
    {Received("one", 0, 0, f) : f \in {"ok", "panic"}}
    \cup {Received("interval", x[1], x[2], x[3]) :
             x \in {y \in Intervals \X (0..MaxTime) \X {"ok", "panic"} : y[2] >= y[1]}}

InitSweep ==
    /\ now \in 0..MaxTime
    /\ \E n \in 1..NumTimers :
          /\ tm \in {f \in [Timers -> ReceivedTimers \cup {NoTimer}] :
                        /\ \A t \in Timers : f[t] = NoTimer <=> t > n
                        /\ Cardinality({t \in Timers : f[t].fn = "panic"}) <= MaxFaulty}
          /\ pc = [t \in Timers |-> IF t <= n THEN "done" ELSE "idle"]
          /\ cs = [t \in Timers |-> IF t <= n THEN 1 ELSE NoSched]
          /\ \E q \in Orders(n) : timers = [k \in Timers |-> IF k = 1 THEN FromSeq(q) ELSE NilSlice]
    /\ _scheduler = 1
    /\ loop = [l \in Timers |-> IF l = 1 THEN [NoLoop EXCEPT !.pc = "select", !.s = 1] ELSE NoLoop]
    /\ stops = 0
    /\ hist = [t \in Timers |-> NoHist]

PollSweep(l) ==
    \/ Default(l)
    \/ SweepOneTimer(l)
    \/ TickCheck(l)
    \/ TickFire(l)
    \/ Remove(l)

NextSweep ==
    \/ \E l \in Timers : PollSweep(l)
    \/ Tick

SpecSweep == InitSweep /\ [][NextSweep]_vars

\* with callbacks that call a constructor themselves
CallerNested(t) ==
    \/ \E d \in Delays, f \in {"ok", "new"} : NewOneTimer(t, d, f)
    \/ \E d \in Delays, i \in Intervals, f \in {"ok", "new"} : NewIntervalTimer(t, d, i, f)
    \/ InstanceCreate(t)
    \/ InstanceGo(t)
    \/ InstanceReturn(t)
    \/ Sleep(t)

PollNested(l) ==
    \/ Poll(l)
    \/ \E t \in Timers : CallbackCalls(l, t)
    \/ CallbackReturns(l)

NextNested ==
    \/ \E t \in Timers : CallerNested(t)
    \/ \E l \in Timers : PollNested(l)
    \/ Tick

SpecNested == Init /\ [][NextNested]_vars

\* one-shot timers only, every goroutine and the clock scheduled fairly
CallerOne(t) ==
    \/ \E d \in Delays, f \in {"ok", "panic"} : NewOneTimer(t, d, f)
    \/ InstanceCreate(t)
    \/ InstanceGo(t)
    \/ InstanceReturn(t)
    \/ Sleep(t)

PollOne(l) ==
    \/ \E t \in Timers : Receive(l, t)
    \/ Default(l)
    \/ SweepOneTimer(l)
    \/ Remove(l)

NextOne ==
    \/ \E t \in Timers : CallerOne(t)
    \/ \E l \in Timers : PollOne(l)
    \/ Tick

FairSpec ==
    /\ Init
    /\ [][NextOne]_vars
    /\ WF_vars(Tick)
    /\ \A t \in Timers : WF_vars(CallerOne(t))
    /\ \A l \in Timers : WF_vars(PollOne(l))

\* ------------------------------------------------------------ properties
Max(a, b) == IF a >= b THEN a ELSE b

\* the delay of t, nil counted as 0
DelayOf(t) == IF tm[t].d = NoDelay THEN 0 ELSE tm[t].d

\* C1: the callback of a one-shot timer is invoked at most once in total.
OneTimerFiresAtMostOnce ==
    \A t \in Timers : IsOneTimer(t) => hist[t].cnt <= 1

\* C2: an interval timer that has become live, whose stop flag is not set, keeps being
\* fired while no callback has faulted (a stop signal is not part of Spec). Only Receive
\* puts a timer into s.timers, once, and only a sweep ticks it: the timer keeps firing only
\* if it stays in the s.timers of the scheduler that received it.
IntervalTimerStaysLive ==
    \A t \in Timers :
        (/\ tm[t].kind = "interval"
         /\ pc[t] = "done"
         /\ ~tm[t].s
         /\ \A l \in Timers : loop[l].pc # "dead")
        => t \in Range(Live(timers[cs[t]]))

\* C3: two consecutive invocations of an interval timer's callback, interval i > 0, are at
\* least i apart: the tick that invokes it read the clock at least i after the one before.
IntervalFiresApart ==
    [][\A l \in Timers :
          (/\ loop[l].pc = "fire"
           /\ loop'[l].pc # "fire"
           /\ tm[Cur(l)].i > 0
           /\ hist[Cur(l)].last # NoTime)
          => loop[l].t - hist[Cur(l)].last >= tm[Cur(l)].i]_vars

\* C4: no invocation of an interval timer's callback, so not the first one either, is earlier
\* than max(d, i) after the call of NewIntervalTimer.
FirstFireNotBeforeMaxDelayInterval ==
    \A t \in Timers :
        (tm[t].kind = "interval" /\ hist[t].last # NoTime)
        => hist[t].last >= tm[t].c + Max(DelayOf(t), tm[t].i)

\* an interval timer with a delay and a positive interval has fired
C4Witness ==
    \E t \in Timers :
        /\ tm[t].kind = "interval"
        /\ tm[t].d # NoDelay
        /\ tm[t].i > 0
        /\ hist[t].cnt > 0

\* C5: a one-shot timer with delay d is at the send to s.queue, or past it, only once d has
\* elapsed since the call of NewOneTimer, and its callback is not invoked before that.
OneTimerNotBeforeDelay ==
    \A t \in Timers :
        (IsOneTimer(t) /\ tm[t].d # NoDelay)
        => /\ pc[t] \in {"send", "done"} => now >= tm[t].c + tm[t].d
           /\ hist[t].last # NoTime => hist[t].last >= tm[t].c + tm[t].d

\* a one-shot timer with a delay has fired
C5Witness ==
    \E t \in Timers : IsOneTimer(t) /\ tm[t].d # NoDelay /\ hist[t].cnt > 0

\* C6: every one-shot timer whose registration is under way (its waiter sleeps, or it is
\* being sent) eventually has its callback invoked.
OneTimerEventuallyFires ==
    \A t \in Timers :
        (IsOneTimer(t) /\ pc[t] \in {"sleep", "send"}) ~> (hist[t].cnt > 0)

\* C7: a constructor that has not returned is never waiting for the poll loop to receive
\* its timer.
ConstructorReturnsWithoutIntake ==
    \A t \in Timers : pc[t] = "send" => Returned(t)

\* C8: timers registered with no delay are not lost: once received, a timer that has not
\* been ticked yet is in the s.timers of the scheduler that received it.
NoRegistrationLost ==
    \A t \in Timers :
        (tm[t].d = NoDelay /\ pc[t] = "done" /\ ~hist[t].ticked)
        => t \in Range(Live(timers[cs[t]]))

\* C9: a poll loop in whose sweep a callback has panicked is still running.
LoopSurvivesCallbackFault ==
    \A l \in Timers :
        (/\ loop[l].i < Len(loop[l].rng)
         /\ tm[Cur(l)].fn = "panic"
         /\ hist[Cur(l)].cnt > 0)
        => loop[l].pc # "dead"

\* C10: a constructor called after the poll loop of the current scheduler took the stop
\* signal is served by another, fresh scheduler.
RegistrationAfterStopGetsFreshScheduler ==
    \A t \in Timers :
        (hist[t].late # NoSched /\ pc[t] \in {"sleep", "send", "done", "panic"})
        => cs[t] \notin {hist[t].late, NoSched}

\* C13: an interval timer constructed with a non-positive interval is rejected: it is never
\* handed to a scheduler, never live, and its callback is never invoked.
NonPositiveIntervalRejected ==
    \A t \in Timers :
        (tm[t].kind = "interval" /\ tm[t].i <= 0)
        => /\ pc[t] \notin {"send", "done"}
           /\ \A k \in Timers : t \notin Range(Live(timers[k]))
           /\ hist[t].cnt = 0

\* a goroutine started by `go _scheduler.poll()` is inside poll's for loop
Running(l) == loop[l].pc \in {"select", "sweep", "fire", "callback", "clear"}

\* C16: at most one poll loop is running.
AtMostOnePollLoop ==
    Cardinality({l \in Timers : Running(l)}) <= 1

\* C18: no timer occurs twice in a scheduler's s.timers, and s.timers is never longer than
\* the number of timers received on the scheduler's queue.
LiveSetHasNoDuplicates ==
    \A k \in Timers :
        /\ \A a, b \in 1..timers[k].len : a # b => timers[k].arr[a] # timers[k].arr[b]
        /\ timers[k].len <= Cardinality({t \in Timers : pc[t] = "done" /\ cs[t] = k})

\* C19: the package variable never names a scheduler whose poll goroutines have all
\* returned, whether after a stop signal or after a recovered panic.
NoReferenceToDeadScheduler ==
    \A l \in Timers :
        (/\ loop[l].pc \in {"dead", "exited"}
         /\ loop[l].s # NoSched
         /\ ~\E m \in Timers : loop[m].s = loop[l].s /\ Running(m))
        => _scheduler # loop[l].s

\* C11: a sweep that started with an interval timer's s set does not invoke the timer's
\* callback, and has marked the timer for removal once it is past it.
StoppedTimerNotTicked ==
    \A l \in Timers :
        /\ loop[l].pc = "fire" => Cur(l) \notin loop[l].seen
        /\ loop[l].pc \in {"sweep", "fire"}
           => \A j \in 1..loop[l].i :
                  loop[l].rng[j] \in loop[l].seen => (j - 1) \in Range(loop[l].del)

\* a timer that has fired, then had its s set, has been passed by a sweep that started later
C11Witness ==
    \E l \in Timers :
        /\ loop[l].pc = "sweep"
        /\ loop[l].i > 0
        /\ loop[l].rng[loop[l].i] \in loop[l].seen
        /\ hist[loop[l].rng[loop[l].i]].cnt > 0

\* C12: when a sweep that started with an interval timer's s set has ended, removal loop
\* included, the timer is nowhere in s.timers.
StoppedTimerPruned ==
    [][\A l \in Timers :
          (/\ loop[l].pc = "sweep"
           /\ loop[l].i = Len(loop[l].rng)
           /\ loop'[l].pc = "select")
          => \A t \in loop[l].seen : t \notin Range(Live(timers'[loop[l].s]))]_vars

\* q without the entries at the 0-based positions in marked, from position j on
RECURSIVE Excluding(_, _, _)
Excluding(q, marked, j) ==
    IF j > Len(q) THEN <<>>
    ELSE (IF (j - 1) \in marked THEN <<>> ELSE <<q[j]>>) \o Excluding(q, marked, j + 1)

\* C14: the removal loop of a sweep leaves in s.timers exactly the timers the sweep did not
\* mark, in their order: the sequence the sweep ranged over without the marked positions.
RemovalKeepsUnmarked ==
    [][\A l \in Timers :
          (/\ loop[l].pc = "sweep"
           /\ loop[l].i = Len(loop[l].rng)
           /\ loop'[l].pc = "select")
          => Live(timers'[loop[l].s]) = Excluding(loop[l].rng, Range(loop[l].del), 1)]_vars

\* C17: tick(now) of an interval timer changes nothing and invokes nothing unless now is
\* strictly after n; if it is, the callback is invoked once with that clock reading and,
\* when the callback returns, n becomes exactly that reading plus i, and no other field of
\* the timer changes.
TickFrame ==
    [][\A l \in Timers :
          /\ (/\ InSweep(l) /\ loop'[l] # loop[l]
              /\ tm[Cur(l)].kind = "interval" /\ ~tm[Cur(l)].s)
             => /\ tm' = tm
                /\ hist'[Cur(l)].cnt = hist[Cur(l)].cnt
                /\ hist'[Cur(l)].last = hist[Cur(l)].last
                /\ (loop'[l].pc = "fire") <=> (now > tm[Cur(l)].n)
                /\ loop'[l].pc = "fire" => loop'[l].t = now
          /\ (loop[l].pc = "fire" /\ loop'[l] # loop[l])
             => /\ hist'[Cur(l)].last = loop[l].t
                /\ hist'[Cur(l)].cnt = IF hist[Cur(l)].cnt < MaxCount
                                       THEN hist[Cur(l)].cnt + 1 ELSE MaxCount
                /\ tm[Cur(l)].fn = "ok"
                   => tm' = [tm EXCEPT ![Cur(l)].n = loop[l].t + tm[Cur(l)].i]]_vars

\* the callback of an interval timer was invoked by a tick that read the clock after 0, and
\* the tick has set n
C17Witness ==
    \E t \in Timers :
        /\ tm[t].kind = "interval"
        /\ tm[t].i > 0
        /\ hist[t].cnt > 0
        /\ hist[t].last > 0
        /\ tm[t].n = hist[t].last + tm[t].i

\* C15: a poll loop is never waiting for something only a poll loop can do: while it runs a
\* callback whose constructor call is at the send to s.queue, some loop of that scheduler is
\* at its select to receive it.
LoopNeverWaitsForIntake ==
    \A l \in Timers :
        (loop[l].pc = "callback" /\ pc[loop[l].cb] = "send")
        => \E m \in Timers : loop[m].s = cs[loop[l].cb] /\ loop[m].pc = "select"

====
